---- MODULE Spec2Model ----
(***************************************************************************)
(* Model of scripts/gerar_grafico_vagas.py and scripts/job_vacancy_sheet19 *)
(* .py: the table loader (header reconstruction, wide-to-long reshaping),  *)
(* the chart renderer and the flows that wire them to CSV / image output.  *)
(*                                                                         *)
(* Representation.  A text is a sequence of tokens whose concatenation is  *)
(* the Python string: "geo" + "_flag" is <<"geo", "_flag">>, so f"{x}_flag"*)
(* is x \o <<"_flag">> and str.endswith("_flag") looks at the last token.  *)
(* A cell of the sheet is a record [k, n, s]: k = "na" (empty cell, NaN),  *)
(* k = "num" (a number n) or k = "str" (a text s).  Sequences are 1-based, *)
(* so Python position i is TLA+ position i + 1; row indices given to the   *)
(* loader stay zero-based as in the source.                                *)
(***************************************************************************)
EXTENDS Integers, Sequences, FiniteSets, TLC

VARIABLES fluxo, bruto, linha_cabecalho, linha_inicio_dados, paises,
          sem_csv, sem_grafico, pc, colunas, carga, avisos, csv,
          diretorios, imagem, saida

vars == <<fluxo, bruto, linha_cabecalho, linha_inicio_dados, paises,
          sem_csv, sem_grafico, pc, colunas, carga, avisos, csv,
          diretorios, imagem, saida>>

----------------------------------------------------------------------------
(* Cells and texts *)

NA == [k |-> "na", n |-> 0, s |-> <<>>]
Num(x) == [k |-> "num", n |-> x, s |-> <<>>]
Txt(t) == [k |-> "str", n |-> 0, s |-> t]

SENTINELA == <<":">>
GEO == <<"geo">>
FLAG == <<"_flag">>

\* pd.isna / pd.notna on one cell
isna(valor) == valor.k = "na"

\* str(valor) of a non-empty cell: a number prints as its decimal text
str(valor) == IF valor.k = "num" THEN <<ToString(valor.n)>> ELSE valor.s

\* str.endswith("_flag")
endswith_flag(col) == Len(col) > 0 /\ col[Len(col)] = FLAG[1]

----------------------------------------------------------------------------
(* montar_nomes_colunas / _build_columns: the left-to-right scan *)

RECURSIVE montar_nomes_desde(_, _, _)
montar_nomes_desde(linha, idx, acc) ==
    IF idx > Len(linha) THEN acc
    ELSE montar_nomes_desde(linha, idx + 1,
            IF idx = 1 THEN Append(acc, GEO)
            ELSE IF isna(linha[idx]) THEN Append(acc, acc[Len(acc)] \o FLAG)
            ELSE Append(acc, str(linha[idx])))

\* a scan that derives every flag label from the last non-empty header instead
\* of the label immediately to the left
RECURSIVE montar_nomes_ancestral(_, _, _, _)
montar_nomes_ancestral(linha, idx, base, acc) ==
    IF idx > Len(linha) THEN acc
    ELSE IF idx = 1 THEN montar_nomes_ancestral(linha, idx + 1, GEO, Append(acc, GEO))
    ELSE IF isna(linha[idx])
         THEN montar_nomes_ancestral(linha, idx + 1, base, Append(acc, base \o FLAG))
    ELSE montar_nomes_ancestral(linha, idx + 1, str(linha[idx]),
                                Append(acc, str(linha[idx])))

montar_nomes_sem_propagar(linha_cab) == montar_nomes_ancestral(linha_cab, 1, GEO, <<>>)

montar_nomes_colunas(linha_cab) == montar_nomes_desde(linha_cab, 1, <<>>)

_build_columns(header_row) == montar_nomes_desde(header_row, 1, <<>>)

----------------------------------------------------------------------------
(* DataFrame.iloc on rows: bruto.iloc[i] and bruto.iloc[i:] *)

\* a bounds check that rejects the negative indices iloc counts from the end
iloc_sem_negativos(n, i) == 0 <= i /\ i < n

\* iloc[i] accepts -n <= i < n and raises IndexError otherwise
iloc_valido(n, i) == -n <= i /\ i < n

\* 1-based position of row iloc[i]
iloc_pos(n, i) == IF i < 0 THEN n + i + 1 ELSE i + 1

\* number of rows skipped by the slice iloc[i:] (a slice never raises)
fatia_inicio(n, i) ==
    IF i < 0 THEN (IF n + i < 0 THEN 0 ELSE n + i)
    ELSE IF i > n THEN n ELSE i

\* bruto.iloc[i:].reset_index(drop=True): rows keep a fresh 0-based index label
fatiar(grade, i) ==
    LET ini == fatia_inicio(Len(grade), i)
    IN [j \in 1..(Len(grade) - ini) |-> [index |-> j - 1, cells |-> grade[ini + j]]]

----------------------------------------------------------------------------
(* carregar_tabela_vagas / load_sheet19_table *)

\* DataFrame.replace({":": pd.NA}) on one cell
substituir(valor) == IF valor = Txt(SENTINELA) THEN NA ELSE valor

\* numbers a text cell can spell; pd.to_numeric parses such a text
Numeros == 0..99

\* pd.to_numeric(errors="coerce") on one cell: a number, or NaN (NA)
to_numeric(valor) ==
    IF valor.k = "num" THEN valor
    ELSE IF valor.k = "str" /\ \E x \in Numeros : valor.s = <<ToString(x)>>
         THEN Num(CHOOSE x \in Numeros : valor.s = <<ToString(x)>>)
    ELSE NA

\* [col for col in colunas if col != "geo" and not col.endswith("_flag")]
selecionar_colunas_valor(cols) ==
    LET manter(col) == col # GEO /\ ~endswith_flag(col)
    IN SelectSeq(cols, manter)

\* how many columns carry the label col
ocorrencias(cols, col) == Cardinality({i \in 1..Len(cols) : cols[i] = col})

\* position of the (single) column labelled col
posicao(cols, col) == CHOOSE i \in 1..Len(cols) : cols[i] = col

\* bruto.iloc[6, 2] under try/except: the optional area label
ler_area_trabalho(grade) ==
    IF Len(grade) >= 7 /\ Len(grade[7]) >= 3 /\ ~isna(grade[7][3])
    THEN Txt(str(grade[7][3])) ELSE NA

\* dados[dados["geo"].notna()]
filtrar_geo(dados) ==
    LET tem_geo(r) == ~isna(r.cells[1])
    IN SelectSeq(dados, tem_geo)

\* a melt that walks the frame row by row instead of column by column
melt_por_linha(dados, cols, cols_valor) ==
    LET K == Len(cols_valor)
    IN [p \in 1..(Len(dados) * K) |->
          LET r == ((p - 1) \div K) + 1
              k == ((p - 1) % K) + 1
          IN [idx |-> p - 1,
              geo |-> IF dados[r].cells[1] = Txt(SENTINELA) THEN NA ELSE dados[r].cells[1],
              trimestre |-> cols_valor[k],
              taxa_vaga |->
                  LET v == dados[r].cells[CHOOSE i \in 1..Len(cols) : cols[i] = cols_valor[k]]
                  IN IF v = Txt(SENTINELA) THEN NA ELSE v]]

\* dados[["geo"] + colunas_valor].replace(...).melt(id_vars="geo"): one record per
\* (value column, row), value column by value column; idx is the melted frame's
\* index label, kept by dropna
melt(dados, cols, cols_valor) ==
    LET N == Len(dados)
    IN [p \in 1..(N * Len(cols_valor)) |->
          LET k == ((p - 1) \div N) + 1
              r == ((p - 1) % N) + 1
          IN [idx |-> p - 1,
              geo |-> substituir(dados[r].cells[1]),
              trimestre |-> cols_valor[k],
              taxa_vaga |-> substituir(dados[r].cells[posicao(cols, cols_valor[k])])]]

\* the coercion without the dropna: rows without a number stay, with a null
coagir_sem_descartar(derretido) ==
    [p \in 1..Len(derretido) |->
        [derretido[p] EXCEPT !.taxa_vaga = to_numeric(derretido[p].taxa_vaga)]]

\* pd.to_numeric on the value column, then dropna(subset=[value])
coagir_e_descartar(derretido) ==
    LET numerico == [p \in 1..Len(derretido) |->
                        [derretido[p] EXCEPT !.taxa_vaga = to_numeric(derretido[p].taxa_vaga)]]
        tem_valor(r) == ~isna(r.taxa_vaga)
    IN SelectSeq(numerico, tem_valor)

falha(nome, linha) ==
    [erro |-> nome, linha |-> linha, dados |-> <<>>, linhas |-> <<>>,
     categorias |-> <<>>, colunas_valor |-> <<>>, area_trabalho |-> NA]

\* The loader.  The result is a raised exception (erro # "", with the source line
\* that raises) or the returned (arrumado, colunas_valor, area_trabalho); linhas
\* are the rows of arrumado and categorias the categories of its period column.
\* Two raises come from pandas on duplicate labels: a later header cell with the
\* text "geo" makes dados["geo"] a two-column frame, which the row filter and the
\* melt on id_vars="geo" reject; two equal value labels are rejected by
\* pd.Categorical ("categories must be unique").
carregar_tabela_vagas(grade, lin_cab, lin_dados) ==
    IF ~iloc_valido(Len(grade), lin_cab) THEN falha("IndexError", 76)
    ELSE
    LET cabecalho == grade[iloc_pos(Len(grade), lin_cab)]
        cols == montar_nomes_colunas(cabecalho)
        cols_valor == selecionar_colunas_valor(cols)
    IN  IF ocorrencias(cols, GEO) > 1 THEN falha("ValueError", 81)
        ELSE IF \E col \in {cols_valor[i] : i \in 1..Len(cols_valor)} :
                    ocorrencias(cols_valor, col) > 1
        THEN falha("ValueError", 91)
        ELSE
        LET dados == filtrar_geo(fatiar(grade, lin_dados))
        IN [erro |-> "", linha |-> 92, dados |-> dados,
            linhas |-> coagir_e_descartar(melt(dados, cols, cols_valor)),
            categorias |-> cols_valor, colunas_valor |-> cols_valor,
            area_trabalho |-> ler_area_trabalho(grade)]

LINHA_CABECALHO_PADRAO == 10
LINHA_DADOS_PADRAO == 12

\* load_sheet19_table: the same steps with the header and data rows fixed
load_sheet19_table(raw) ==
    carregar_tabela_vagas(raw, LINHA_CABECALHO_PADRAO, LINHA_DADOS_PADRAO)

----------------------------------------------------------------------------
(* plotar_taxa_vagas / plot_job_vacancies *)

PAISES_PADRAO ==
    <<"European Union - 27 countries (from 2020)",
      "Euro area - 20 countries (from 2023)", "Germany", "France", "Spain">>

\* the entity names of the model in Python's string order (the order of
\* sort_values and groupby on the geo column)
ORDEM_TEXTO ==
    <<"Euro area - 20 countries (from 2023)",
      "European Union - 27 countries (from 2020)",
      "France", "Germany", "Spain", "Unknown Country">>

ordem_geo(geo) == CHOOSE i \in 1..Len(ORDEM_TEXTO) : <<ORDEM_TEXTO[i]>> = geo.s

\* the period labels in Python's string order
ORDEM_TRIMESTRE == <<"2020-Q4", "2021-Q1">>

\* a code that follows the text of the label instead of the categories
codigo_lexico(categorias, trimestre) ==
    CHOOSE i \in 1..Len(ORDEM_TRIMESTRE) : <<ORDEM_TRIMESTRE[i]>> = trimestre

\* the code of a period in the ordered Categorical: its position in the categories
codigo(categorias, trimestre) == posicao(categorias, trimestre)

\* dados_arrumados["geo"].isin(paises) on one record
isin(geo, lista) == geo.k = "str" /\ \E i \in 1..Len(lista) : geo.s = <<lista[i]>>

\* the sort key of sort_values(["geo", "trimestre"]): geo, then the category code
antes(categorias, a, b) ==
    \/ ordem_geo(a.geo) < ordem_geo(b.geo)
    \/ /\ ordem_geo(a.geo) = ordem_geo(b.geo)
       /\ codigo(categorias, a.trimestre) < codigo(categorias, b.trimestre)

\* sort_values is stable on its keys: insert each record after its equals
RECURSIVE sort_values(_, _)
sort_values(categorias, linhas) ==
    IF linhas = <<>> THEN <<>>
    ELSE LET n == Len(linhas)
             x == linhas[n]
             s == sort_values(categorias, SubSeq(linhas, 1, n - 1))
             k == Cardinality({j \in 1..Len(s) : ~antes(categorias, x, s[j])})
         IN SubSeq(s, 1, k) \o <<x>> \o SubSeq(s, k + 1, Len(s))

\* recorte.groupby("geo"): one group per geo, in key order; the plotted series of a
\* group is (x = str of its periods, y = its values, label = geo)
groupby(ordenado) ==
    LET chaves == {ordenado[i].geo : i \in 1..Len(ordenado)}
        grupo(g) == LET do_geo(r) == r.geo = g IN SelectSeq(ordenado, do_geo)
        serie(g) == [label |-> g.s,
                     x |-> [i \in 1..Len(grupo(g)) |-> grupo(g)[i].trimestre],
                     y |-> [i \in 1..Len(grupo(g)) |-> grupo(g)[i].taxa_vaga.n]]
        nesimo(i) == CHOOSE g \in chaves :
                        Cardinality({h \in chaves : ordem_geo(h) < ordem_geo(g)}) = i - 1
    IN [i \in 1..Cardinality(chaves) |-> serie(nesimo(i))]

\* a renderer without the check of the empty selection
plotar_sem_verificar(linhas, categorias, lista_paises) ==
    LET pertence(r) == isin(r.geo, lista_paises)
    IN [erro |-> "", mkdir |-> TRUE, salvo |-> TRUE,
        series |-> groupby(sort_values(categorias, SelectSeq(linhas, pertence)))]

\* The renderer: raises ValueError on an empty selection before anything is
\* created; otherwise creates the parent directory, draws one line per group and
\* saves the figure.
plotar_taxa_vagas(linhas, categorias, lista_paises) ==
    LET pertence(r) == isin(r.geo, lista_paises)
        recorte == SelectSeq(linhas, pertence)
    IN IF recorte = <<>>
       THEN [erro |-> "ValueError", mkdir |-> FALSE, salvo |-> FALSE, series |-> <<>>]
       ELSE [erro |-> "", mkdir |-> TRUE, salvo |-> TRUE,
             series |-> groupby(sort_values(categorias, recorte))]

plot_job_vacancies(linhas, categorias, countries) ==
    plotar_taxa_vagas(linhas, categorias, countries)

----------------------------------------------------------------------------
(* the checks of the flows on the requested geos, and the CSV *)

\* geo in dados_arrumados["geo"].unique()
presente(linhas, geo) == \E i \in 1..Len(linhas) : linhas[i].geo = Txt(<<geo>>)

\* faltantes = [geo for geo in paises if geo not in ...unique()]
faltantes(linhas, lista) ==
    LET falta(geo) == ~presente(linhas, geo) IN SelectSeq(lista, falta)

\* paises_validos = [geo for geo in paises if geo in ...unique()]
paises_validos(linhas, lista) ==
    LET tem(geo) == presente(linhas, geo) IN SelectSeq(lista, tem)

\* DataFrame.to_csv(index=False): one line per row, in the frame's order; an empty
\* geo is written as the empty text
to_csv(linhas) ==
    [i \in 1..Len(linhas) |->
        [geo |-> IF isna(linhas[i].geo) THEN <<>> ELSE str(linhas[i].geo),
         trimestre |-> linhas[i].trimestre,
         taxa_vaga |-> linhas[i].taxa_vaga.n]]

----------------------------------------------------------------------------
(* Bounds and input families *)

\* a sheet of the flows has at most MaxCelulas cells that vary: the header cells
\* after the first, the identifiers and the value cells of the data rows
MaxCelulas == 8

\* the same bound for the sheets given to the loader alone
MaxCelulasCarga == 5

\* the header rows of SpecCab have at most MaxCab cells
MaxCab == 5

P1 == <<"2020-Q4">>
P2 == <<"2021-Q1">>

\* the number held by the value cell of data row r, column c (distinct per cell)
valor_em(r, c) == 10 * r + c

branco(w) == [c \in 1..w |-> NA]

\* a sheet in the Eurostat layout: LINHA_CABECALHO_PADRAO leading rows, the header
\* row, the rows up to LINHA_DADOS_PADRAO, then the data rows
planilha(cab, linhas) ==
    [i \in 1..LINHA_CABECALHO_PADRAO |-> branco(Len(cab))] \o <<cab>>
    \o [i \in 1..(LINHA_DADOS_PADRAO - LINHA_CABECALHO_PADRAO - 1) |-> branco(Len(cab))]
    \o linhas

\* the shapes <<data rows, columns after the first>> of the sheets with at most
\* max varying cells
Formas(max) == {f \in (0..max) \X (0..max) : (f[1] + 1) * (f[2] + 1) - 1 <= max}

\* header rows: first cell "geo", then v cells drawn from dom
Cabecalhos(v, dom) == {<<Txt(GEO)>> \o c : c \in [1..v -> dom]}

\* a value cell of kind tipo at data row r, column c: a number, the same number
\* spelled as a text, the sentinel, a flag text or an empty cell
celula(tipo, r, c) ==
    CASE tipo = "num" -> Num(valor_em(r, c))
      [] tipo = "txt" -> Txt(<<ToString(valor_em(r, c))>>)
      [] tipo = ":" -> Txt(SENTINELA)
      [] tipo = "u" -> Txt(<<"u">>)
      [] OTHER -> NA

\* r data rows: an identifier from ids, then v cells of kinds drawn from tipos
Linhas(r, v, ids, tipos) ==
    {[i \in 1..r |-> <<g[i]>> \o [c \in 1..v |-> celula(m[i][c], i, c)]] :
        g \in [1..r -> ids], m \in [1..r -> [1..v -> tipos]]}

----------------------------------------------------------------------------
(* The flows.  pc is the position in the run:                              *)
(*   "aba"       fluxo_interativo before the sheet is chosen               *)
(*   "carregar"  before the loader is called                               *)
(*   "verificar" before the requested geos are checked                     *)
(*   "csv"       before the CSV is written                                 *)
(*   "grafico"   before the renderer is called                             *)
(*   "fim"       the run has ended; saida is "" or the exception raised    *)
(* fluxo is the entry point: fluxo_argumentos, fluxo_interativo, main of   *)
(* job_vacancy_sheet19 ("sheet19"), a caller of the loader and then the    *)
(* renderer with the requested list ("direto"), a caller of one loader     *)
(* alone ("carga", "carga19") or of one column-label function alone        *)
(* ("colunas", "colunas19", from pc = "cabecalho" on the row bruto[1]).    *)

Fluxos == {"argumentos", "interativo", "sheet19", "direto"}

SEM_CARGA == falha("", 0)
SEM_IMAGEM == [erro |-> "", mkdir |-> FALSE, salvo |-> FALSE, series |-> <<>>]
SEM_CSV == [escrito |-> FALSE, linhas |-> <<>>]

\* the state a run starts in, for the inputs given
Comeca(f, grade, lc, ld, lista, scsv, sgraf) ==
    /\ fluxo = f
    /\ bruto = grade
    /\ linha_cabecalho = lc
    /\ linha_inicio_dados = ld
    /\ paises = lista
    /\ sem_csv = scsv
    /\ sem_grafico = sgraf
    /\ pc = IF f = "interativo" THEN "aba"
            ELSE IF f \in {"colunas", "colunas19"} THEN "cabecalho"
            ELSE "carregar"
    /\ colunas = <<>>
    /\ carga = SEM_CARGA
    /\ avisos = <<>>
    /\ csv = SEM_CSV
    /\ diretorios = {}
    /\ imagem = SEM_IMAGEM
    /\ saida = ""

\* the column labels of a header row, by either module's function
MontarNomesColunas ==
    /\ pc = "cabecalho"
    /\ fluxo = "colunas"
    /\ colunas' = montar_nomes_colunas(bruto[1])
    /\ pc' = "fim"
    /\ UNCHANGED <<fluxo, bruto, linha_cabecalho, linha_inicio_dados, paises,
                   sem_csv, sem_grafico, carga, avisos, csv, diretorios,
                   imagem, saida>>

BuildColumns ==
    /\ pc = "cabecalho"
    /\ fluxo = "colunas19"
    /\ colunas' = _build_columns(bruto[1])
    /\ pc' = "fim"
    /\ UNCHANGED <<fluxo, bruto, linha_cabecalho, linha_inicio_dados, paises,
                   sem_csv, sem_grafico, carga, avisos, csv, diretorios,
                   imagem, saida>>

\* fluxo_interativo: the sheet is chosen by number; an invalid choice exits
EscolherAba ==
    /\ pc = "aba"
    /\ \E valida \in BOOLEAN :
         /\ pc' = IF valida THEN "carregar" ELSE "fim"
         /\ saida' = IF valida THEN "" ELSE "SystemExit"
    /\ UNCHANGED <<fluxo, bruto, linha_cabecalho, linha_inicio_dados, paises,
                   sem_csv, sem_grafico, colunas, carga, avisos, csv,
                   diretorios, imagem>>

\* what follows the loader: an exception ends the run, a direct caller goes on
\* to the renderer, a flow checks the requested geos
AposCarga(res) ==
    /\ carga' = res
    /\ saida' = res.erro
    /\ pc' = IF res.erro # "" \/ fluxo \in {"carga", "carga19"} THEN "fim"
             ELSE IF fluxo = "direto" THEN "grafico" ELSE "verificar"
    /\ colunas' = IF res.linha = 76 THEN colunas
                  ELSE montar_nomes_colunas(bruto[iloc_pos(Len(bruto), linha_cabecalho)])
    /\ UNCHANGED <<fluxo, bruto, linha_cabecalho, linha_inicio_dados, paises,
                   sem_csv, sem_grafico, avisos, csv, diretorios, imagem>>

CarregarTabelaVagas ==
    /\ pc = "carregar"
    /\ fluxo \notin {"sheet19", "carga19"}
    /\ AposCarga(carregar_tabela_vagas(bruto, linha_cabecalho, linha_inicio_dados))

LoadSheet19Table ==
    /\ pc = "carregar"
    /\ fluxo \in {"sheet19", "carga19"}
    /\ AposCarga(load_sheet19_table(bruto))

\* the warning about the requested geos without rows, and the exit when none is left
VerificarGeos ==
    /\ pc = "verificar"
    /\ avisos' = faltantes(carga.linhas, paises)
    /\ IF paises_validos(carga.linhas, paises) = <<>>
       THEN saida' = "SystemExit" /\ pc' = "fim"
       ELSE saida' = saida /\ pc' = "csv"
    /\ UNCHANGED <<fluxo, bruto, linha_cabecalho, linha_inicio_dados, paises,
                   sem_csv, sem_grafico, colunas, carga, csv, diretorios, imagem>>

\* the CSV: always in fluxo_interativo, unless --sem-csv in fluxo_argumentos, when
\* --csv-output is not empty in job_vacancy_sheet19
SalvarCsv ==
    /\ pc = "csv"
    /\ IF fluxo = "interativo" \/ ~sem_csv
       THEN /\ diretorios' = diretorios \cup {"csv"}
            /\ csv' = [escrito |-> TRUE, linhas |-> to_csv(carga.linhas)]
       ELSE UNCHANGED <<diretorios, csv>>
    /\ pc' = IF fluxo = "argumentos" /\ sem_grafico THEN "fim" ELSE "grafico"
    /\ UNCHANGED <<fluxo, bruto, linha_cabecalho, linha_inicio_dados, paises,
                   sem_csv, sem_grafico, colunas, carga, avisos, imagem, saida>>

\* the renderer, called by a flow with paises_validos or directly with paises
PlotarTaxaVagas ==
    /\ pc = "grafico"
    /\ LET lista == IF fluxo = "direto" THEN paises
                    ELSE paises_validos(carga.linhas, paises)
           fig == IF fluxo = "sheet19"
                  THEN plot_job_vacancies(carga.linhas, carga.categorias, lista)
                  ELSE plotar_taxa_vagas(carga.linhas, carga.categorias, lista)
       IN /\ imagem' = fig
          /\ diretorios' = IF fig.mkdir THEN diretorios \cup {"grafico"} ELSE diretorios
          /\ saida' = fig.erro
    /\ pc' = "fim"
    /\ UNCHANGED <<fluxo, bruto, linha_cabecalho, linha_inicio_dados, paises,
                   sem_csv, sem_grafico, colunas, carga, avisos, csv>>

Next ==
    \/ EscolherAba
    \/ CarregarTabelaVagas
    \/ LoadSheet19Table
    \/ VerificarGeos
    \/ SalvarCsv
    \/ PlotarTaxaVagas

\* the entity lists the flows are asked for
Pedidos == {<<"Germany", "Unknown Country">>, <<"Spain", "Germany">>}

\* the options of each entry point: <<paises, sem_csv, sem_grafico>>
Opcoes(f) ==
    CASE f = "argumentos" ->
            (Pedidos \X {FALSE} \X {FALSE})
            \cup ({<<"Germany", "Unknown Country">>} \X BOOLEAN \X BOOLEAN)
      [] f = "sheet19" ->
            (Pedidos \X {FALSE} \X {FALSE})
            \cup ({<<"Germany", "Unknown Country">>} \X BOOLEAN \X {FALSE})
      [] f = "interativo" -> {<<PAISES_PADRAO, FALSE, FALSE>>}
      [] OTHER -> Pedidos \X {FALSE} \X {FALSE}

\* the sheets of the flows: period labels in the header, one country per data row, a number or the sentinel in each value cell
PlanilhasFluxo(forma) ==
    {planilha(cab, lin) :
        cab \in Cabecalhos(forma[2], {Txt(P1), Txt(P2)}),
        lin \in Linhas(forma[1], forma[2], {Txt(<<"Germany">>), Txt(<<"Spain">>)},
                       {"num", ":"})}

Init ==
    \E f \in Fluxos : \E forma \in Formas(MaxCelulas) :
        \E grade \in PlanilhasFluxo(forma) : \E o \in Opcoes(f) :
            Comeca(f, grade, LINHA_CABECALHO_PADRAO, LINHA_DADOS_PADRAO, o[1], o[2], o[3])

Spec == Init /\ [][Next]_vars

----------------------------------------------------------------------------
(* The loader alone, on sheets with flag columns, a repeated or "geo" header
   label, rows without identifier, a sentinel or a text in any cell, and with
   header / data row indices inside and outside the sheet *)

PlanilhasCarga(forma) ==
    {planilha(cab, lin) :
        cab \in Cabecalhos(forma[2], {Txt(P1), Txt(P2), Txt(GEO), NA}),
        lin \in Linhas(forma[1], forma[2], {Txt(<<"Spain">>), Txt(SENTINELA), NA},
                       {"num", "txt", ":", "u"})}

\* the sheet of the documented example and its variants: header
\* ["geo", period, empty, period, empty], one data row whose value cells hold a
\* number or the sentinel and whose flag cells hold "u" or nothing
PlanilhasExemplo ==
    {planilha(<<Txt(GEO), Txt(P1), NA, Txt(P2), NA>>,
              <<<<g, celula(t[1], 1, 1), celula(t[2], 1, 2),
                  celula(t[3], 1, 3), celula(t[4], 1, 4)>>>>) :
        g \in {Txt(<<"Spain">>), NA},
        t \in {"num", ":"} \X {"u", "na"} \X {"num", ":"} \X {"u", "na"}}

\* the <<header row, first data row>> indices tried on a sheet: the layout's, a
\* data row as header, indices past the end, a data start before the header, and
\* negative indices (counted from the end by iloc)
Indices(grade) ==
    ({LINHA_CABECALHO_PADRAO, LINHA_DADOS_PADRAO, Len(grade)}
        \X {LINHA_DADOS_PADRAO, LINHA_CABECALHO_PADRAO, Len(grade) + 1})
    \cup {<<-1, LINHA_DADOS_PADRAO>>, <<LINHA_CABECALHO_PADRAO, -1>>}

\* a call of either loader on a sheet
ComecaCarga(grade) ==
    \/ \E i \in Indices(grade) : Comeca("carga", grade, i[1], i[2], <<>>, FALSE, FALSE)
    \/ Comeca("carga19", grade, LINHA_CABECALHO_PADRAO, LINHA_DADOS_PADRAO,
              <<>>, FALSE, FALSE)

InitCarga ==
    \/ \E forma \in Formas(MaxCelulasCarga) :
          \E grade \in PlanilhasCarga(forma) : ComecaCarga(grade)
    \/ \E grade \in PlanilhasExemplo : ComecaCarga(grade)

NextCarga == CarregarTabelaVagas \/ LoadSheet19Table

SpecCarga == InitCarga /\ [][NextCarga]_vars

----------------------------------------------------------------------------
(* The column-label functions alone, on every header row of at most MaxCab
   cells: empty cells, texts (one ending in "_flag", one equal to "geo") and a
   number, in any position *)

CelulasCab == {NA, Txt(P1), Txt(P1 \o FLAG), Txt(GEO), Num(2022)}

InitCab ==
    \E n \in 0..MaxCab : \E cab \in [1..n -> CelulasCab] :
        \E f \in {"colunas", "colunas19"} :
            Comeca(f, <<cab>>, 0, 1, <<>>, FALSE, FALSE)

NextCab == MontarNomesColunas \/ BuildColumns

SpecCab == InitCab /\ [][NextCab]_vars

----------------------------------------------------------------------------
(* Properties.  They restate what the source computes from the sheet, not *)
(* through the operators above.                                           *)

Termina(t) == Len(t) > 0 /\ t[Len(t)] = "_flag"

\* the header row the call reads, when its index is in the sheet
IndiceCabValido == -Len(bruto) <= linha_cabecalho /\ linha_cabecalho < Len(bruto)
LinhaCab ==
    bruto[IF linha_cabecalho < 0 THEN Len(bruto) + linha_cabecalho + 1
          ELSE linha_cabecalho + 1]

\* the positions in the sheet of the data rows the call reads
PrimeiraLinha ==
    IF linha_inicio_dados < 0
    THEN (IF Len(bruto) + linha_inicio_dados < 0 THEN 1
          ELSE Len(bruto) + linha_inicio_dados + 1)
    ELSE linha_inicio_dados + 1
LinhasDados == {q \in 1..Len(bruto) : q >= PrimeiraLinha}
LinhasComGeo == {q \in LinhasDados : bruto[q][1].k # "na"}

\* the columns after the first whose derived label has no flag suffix
ColunasPeriodo == {c \in 2..Len(colunas) : ~Termina(colunas[c])}

\* a cell that holds a number, as a number or as its text
Numerica(cel) == cel.k = "num" \/ (cel.k = "str" /\ cel.s \in {<<ToString(x)>> : x \in 0..99})

Retornou == pc = "fim" /\ carga.erro = "" /\ carga.linha = 92

\* C1: montar_nomes_colunas / _build_columns label column 0 "geo" whatever its
\* cell, every later non-empty cell with its text, every later empty cell with
\* the label to its left plus "_flag", and return one label per header cell.
C1_RotulosDerivados ==
    (pc = "fim" /\ fluxo \in {"colunas", "colunas19"}) =>
        /\ Len(colunas) = Len(bruto[1])
        /\ \A i \in 1..Len(colunas) :
              colunas[i] =
                 IF i = 1 THEN <<"geo">>
                 ELSE IF bruto[1][i].k = "na" THEN colunas[i - 1] \o <<"_flag">>
                 ELSE IF bruto[1][i].k = "num" THEN <<ToString(bruto[1][i].n)>>
                 ELSE bruto[1][i].s

\* the header [nonempty, empty, empty, nonempty, empty] has been labelled
C1_Testemunha ==
    /\ pc = "fim"
    /\ bruto = << <<Txt(P1), NA, NA, Txt(P1), NA>> >>
    /\ colunas = <<GEO, <<"geo", "_flag">>, <<"geo", "_flag", "_flag">>,
                   P1, <<"2020-Q4", "_flag">>>>

\* C2: a sentinel value cell yields no record, with or without a value; the
\* numeric cells of the same row yield theirs, and flag-column cells none: each
\* numeric cell of a period column in a row with identifier has exactly one
\* record, with its period label and value, and there are no other records.
C2_SentinelaAusente ==
    (Retornou /\ fluxo \in {"carga", "carga19"}) =>
        /\ \A q \in LinhasComGeo : \A c \in ColunasPeriodo :
              bruto[q][c].k = "num" =>
                 Cardinality({i \in 1..Len(carga.linhas) :
                                 /\ carga.linhas[i].taxa_vaga = bruto[q][c]
                                 /\ carga.linhas[i].trimestre = colunas[c]}) = 1
        /\ Len(carga.linhas) =
              Cardinality({x \in LinhasComGeo \X ColunasPeriodo : Numerica(bruto[x[1]][x[2]])})
        /\ \A i \in 1..Len(carga.linhas) : carga.linhas[i].taxa_vaga.k = "num"

\* the documented example: header ["geo", P1, empty, P2, empty] and the row
\* ["Spain", number, "u", ":", "u"] give exactly the record (Spain, P1, number)
C2_Testemunha ==
    /\ Retornou
    /\ linha_cabecalho = LINHA_CABECALHO_PADRAO
    /\ linha_inicio_dados = LINHA_DADOS_PADRAO
    /\ Len(bruto) = LINHA_DADOS_PADRAO + 1
    /\ bruto[LINHA_CABECALHO_PADRAO + 1] = <<Txt(GEO), Txt(P1), NA, Txt(P2), NA>>
    /\ bruto[LINHA_DADOS_PADRAO + 1] =
          <<Txt(<<"Spain">>), Num(11), Txt(<<"u">>), Txt(<<":">>), Txt(<<"u">>)>>
    /\ Len(carga.linhas) = 1
    /\ carga.linhas[1].geo = Txt(<<"Spain">>)
    /\ carga.linhas[1].trimestre = P1
    /\ carga.linhas[1].taxa_vaga = Num(11)

\* C3: no record comes from a data row without identifier, and the entity of
\* every record is a non-empty identifier of a data row at or after the data
\* start row.
C3_SemIdentificador ==
    (Retornou /\ fluxo \in {"carga", "carga19"}) =>
        \A i \in 1..Len(carga.linhas) :
            /\ carga.linhas[i].geo.k # "na"
            /\ \E q \in LinhasComGeo : bruto[q][1] = carga.linhas[i].geo

\* C4: for every header row, the loader returns a PeriodOrder with one entry per
\* header column after the first whose derived label has no "_flag" suffix, also
\* when a later header cell has the text "geo".  (Header rows with two equal
\* period labels are left out: no period order exists for them.)
C4_ComprimentoOrdem ==
    (/\ pc = "fim" /\ fluxo \in {"carga", "carga19"} /\ IndiceCabValido
     /\ \A c \in ColunasPeriodo : \A e \in ColunasPeriodo :
           c # e => colunas[c] # colunas[e]) =>
        /\ carga.erro = ""
        /\ Len(carga.colunas_valor) = Cardinality(ColunasPeriodo)

\* C5: the loader's records, pivoted on (entity, period), give back exactly the
\* numeric value cells of the rows with identifier: every such cell is the one
\* value under its (identifier, period label), and every record is such a cell,
\* also when two data rows share an identifier or two header cells a period
\* label.  (Headers with a later "geo" cell and rows whose identifier is the
\* sentinel are left out: C4 and C3 are about them.)
C5_IdaEVolta ==
    (/\ pc = "fim" /\ fluxo \in {"carga", "carga19"} /\ IndiceCabValido
     /\ \A c \in 2..Len(colunas) : colunas[c] # <<"geo">>
     /\ \A q \in LinhasDados : bruto[q][1] # Txt(SENTINELA)) =>
        /\ carga.erro = ""
        /\ \A q \in LinhasComGeo : \A c \in ColunasPeriodo :
              Numerica(bruto[q][c]) =>
                 {carga.linhas[i].taxa_vaga.n :
                     i \in {j \in 1..Len(carga.linhas) :
                               /\ carga.linhas[j].geo = bruto[q][1]
                               /\ carga.linhas[j].trimestre = colunas[c]}}
                 = {IF bruto[q][c].k = "num" THEN bruto[q][c].n
                    ELSE CHOOSE x \in 0..99 : bruto[q][c].s = <<ToString(x)>>}
        /\ \A i \in 1..Len(carga.linhas) :
              \E q \in LinhasComGeo : \E c \in ColunasPeriodo :
                  /\ Numerica(bruto[q][c])
                  /\ carga.linhas[i].geo = bruto[q][1]
                  /\ carga.linhas[i].trimestre = colunas[c]

RotulosSemRepeticao ==
    /\ \A c \in 2..Len(colunas) : colunas[c] # <<"geo">>
    /\ \A c \in ColunasPeriodo : \A e \in ColunasPeriodo : c # e => colunas[c] # colunas[e]

----------------------------------------------------------------------------
(* Properties of the flows and the renderer *)

FluxosCompletos == {"argumentos", "interativo", "sheet19"}

\* no requested geo has a record
PedidoDisjunto ==
    \A i \in 1..Len(paises) : \A j \in 1..Len(carga.linhas) :
        carga.linhas[j].geo # Txt(<<paises[i]>>)

\* C6: when the requested entities are disjoint from the entities of the records,
\* the run fails (ValueError from the renderer called directly, SystemExit from
\* the flows' own check) and no image is saved nor its directory created, at any
\* point of any run.
C6_SelecaoVazia ==
    (carga.linha = 92 /\ fluxo \in Fluxos /\ PedidoDisjunto) =>
        /\ ~imagem.salvo
        /\ "grafico" \notin diretorios
        /\ pc = "fim" => saida = (IF fluxo = "direto" THEN "ValueError" ELSE "SystemExit")

\* the renderer, called directly on records of other entities, has raised
C6_Testemunha ==
    /\ pc = "fim"
    /\ fluxo = "direto"
    /\ carga.linhas # <<>>
    /\ PedidoDisjunto
    /\ saida = "ValueError"

\* a requested geo that labels a data row of the sheet
NaPlanilha(g) == \E q \in LinhasComGeo : bruto[q][1] = Txt(<<g>>)

\* C7: on a sheet with period columns, the warning lists exactly the requested
\* entities that are not in the sheet, in request order, and the chart has one
\* line per requested entity that is in the sheet.
C7_AvisoDosAusentes ==
    (/\ fluxo \in FluxosCompletos /\ carga.linha = 92 /\ pc \in {"csv", "grafico", "fim"}
     /\ ColunasPeriodo # {}) =>
        /\ LET ausente(g) == ~NaPlanilha(g) IN avisos = SelectSeq(paises, ausente)
        /\ imagem.salvo =>
              {imagem.series[i].label : i \in 1..Len(imagem.series)}
              = {<<paises[i]>> : i \in {j \in 1..Len(paises) : NaPlanilha(paises[j])}}

\* the data row and the column (after the first) of the cell that holds v
linha_de(v) == v \div 10
coluna_de(v) == v % 10

\* C8 as stated: the rows of the CSV are in entity-major order (the order of the
\* sheet's data rows), and within an entity in PeriodOrder (column) order.
C8_OrdemPorEntidade ==
    csv.escrito =>
        \A i \in 1..Len(csv.linhas) : \A j \in 1..Len(csv.linhas) :
            i < j =>
               \/ linha_de(csv.linhas[i].taxa_vaga) < linha_de(csv.linhas[j].taxa_vaga)
               \/ /\ linha_de(csv.linhas[i].taxa_vaga) = linha_de(csv.linhas[j].taxa_vaga)
                  /\ coluna_de(csv.linhas[i].taxa_vaga) < coluna_de(csv.linhas[j].taxa_vaga)

\* C8, amended: the CSV has one row per numeric value cell, with the identifier
\* of the cell's row and the label of its column, and its rows are in
\* PeriodOrder-major order (column by column) and within a period in the order
\* of the sheet's data rows.
C8_OrdemPorPeriodo ==
    csv.escrito =>
        /\ Len(csv.linhas) =
              Cardinality({x \in LinhasComGeo \X ColunasPeriodo : bruto[x[1]][x[2]].k = "num"})
        /\ \A i \in 1..Len(csv.linhas) :
              LET q == LINHA_DADOS_PADRAO + linha_de(csv.linhas[i].taxa_vaga)
                  c == 1 + coluna_de(csv.linhas[i].taxa_vaga)
              IN /\ q \in LinhasComGeo /\ c \in ColunasPeriodo
                 /\ bruto[q][c] = Num(csv.linhas[i].taxa_vaga)
                 /\ csv.linhas[i].geo = bruto[q][1].s
                 /\ csv.linhas[i].trimestre = colunas[c]
        /\ \A i \in 1..Len(csv.linhas) : \A j \in 1..Len(csv.linhas) :
              i < j =>
                 \/ coluna_de(csv.linhas[i].taxa_vaga) < coluna_de(csv.linhas[j].taxa_vaga)
                 \/ /\ coluna_de(csv.linhas[i].taxa_vaga) = coluna_de(csv.linhas[j].taxa_vaga)
                    /\ linha_de(csv.linhas[i].taxa_vaga) < linha_de(csv.linhas[j].taxa_vaga)

\* a CSV of two countries and two periods, all four values numeric
C8_Testemunha ==
    /\ csv.escrito
    /\ Len(csv.linhas) = 4
    /\ csv.linhas[1].geo # csv.linhas[2].geo
    /\ csv.linhas[1].trimestre = csv.linhas[2].trimestre
    /\ csv.linhas[1].trimestre # csv.linhas[3].trimestre

\* the position of a period label in the PeriodOrder the loader returned
PosicaoNaOrdem(t) == CHOOSE k \in 1..Len(carga.colunas_valor) : carga.colunas_valor[k] = t

\* every series holds exactly the records of one requested entity
SeriesPorEntidade ==
    /\ \A i \in 1..Len(imagem.series) : \A j \in 1..Len(imagem.series) :
          i # j => imagem.series[i].label # imagem.series[j].label
    /\ \A i \in 1..Len(imagem.series) :
          LET sr == imagem.series[i]
              regs == {j \in 1..Len(carga.linhas) : carga.linhas[j].geo = Txt(sr.label)}
          IN /\ \E g \in 1..Len(paises) : sr.label = <<paises[g]>>
             /\ Len(sr.x) = Cardinality(regs) /\ Len(sr.y) = Cardinality(regs)
             /\ \A j \in regs : \E p \in 1..Len(sr.x) :
                   /\ sr.x[p] = carga.linhas[j].trimestre
                   /\ sr.y[p] = carga.linhas[j].taxa_vaga.n
    /\ \A g \in 1..Len(paises) :
          (\E j \in 1..Len(carga.linhas) : carga.linhas[j].geo = Txt(<<paises[g]>>))
          => \E i \in 1..Len(imagem.series) : imagem.series[i].label = <<paises[g]>>

====
